---- MODULE Spec2Model ----
(***************************************************************************)
(* The node-classification notebook (src/main.ipynb) as a state machine.   *)
(*                                                                         *)
(* The notebook is one linear sequence of statements, run top to bottom    *)
(* from a single control thread.  Every statement but the last one         *)
(* modelled is a call to the graph service; an exception raised by a       *)
(* statement is not caught anywhere, so it ends the run.  The state is the *)
(* state of the service (database rows, graph / pipeline / model           *)
(* catalogs), the position of the run, and the values the notebook gives   *)
(* as arguments.                                                           *)
(***************************************************************************)
EXTENDS Integers, Sequences, FiniteSets, TLC

\* ------------------------------------------------------------------ bounds
MaxNodeRows == 2    \* rows of the node source (CORA_CONTENT)
MaxEdgeRows == 2    \* rows of the edge source (CORA_CITES)
MaxHoldout == 2     \* values tried for HOLDOUT_NODES: 0..MaxHoldout
MaxRuns == 2        \* runs of the notebook against the same service

\* Sample values of the columns of the two sources.
ExtIds == {1, 2}
Subjects == {0, 6}                \* two of the codes of SUBJECT_TO_ID
FeatureVectors == {<<0, 1>>}

\* Arguments tried for the statements whose arguments are literals the
\* notebook invites the reader to change.
FeatureChoices == {{"features"}, {"embedding"}}
TestFractions == {0, 20, 100}     \* testFraction, in hundredths
FoldCounts == {0, 5}              \* validationFolds

GraphName == "cora-graph"
PipelineName == "cora-pipeline"
ModelName == "cora-pipeline-model"

SeqsUpTo(S, n) == UNION {[1..k -> S] : k \in 0..n}

NodeRow == [extId : ExtIds, subject : Subjects, features : FeatureVectors]
EdgeRow == ExtIds \X ExtIds

Min(a, b) == IF a <= b THEN a ELSE b

\* ------------------------------------------------------------------ state
VARIABLES
    pc,          \* the statement the run is at
    status,      \* "running" | "aborted" (an exception ended the run)
    run,         \* number of the current run
    log,         \* the remote calls the current run has issued, in order
    nodeSrc,     \* rows of CORA_CONTENT
    edgeSrc,     \* rows of CORA_CITES
    holdout,     \* HOLDOUT_NODES
    nodes,       \* database nodes, indexed by node id
    rels,        \* database CITES relationships, <<start id, end id>>
    graphs,      \* graph catalog: name -> projected graph
    pipelines,   \* pipeline catalog: name -> pipeline
    models,      \* model catalog: name -> model
    predicted,   \* the notebook's `predicted` table: node id -> class
    splitArgs,   \* the arguments the run gave to configureSplit, or <<>>
    loadedOn,    \* [nodes, rels] of the database when the run's load began
    trainArgs    \* the arguments the run gave to train_estimate and to train

service == <<nodes, rels, graphs, pipelines, models>>
inputs == <<nodeSrc, edgeSrc, holdout>>
vars == <<pc, status, run, log, nodeSrc, edgeSrc, holdout, nodes, rels,
          graphs, pipelines, models, predicted, splitArgs, loadedOn, trainArgs>>

\* ------------------------------------------------- the service: load (Cypher)
\* The elements of a finite set of node ids, ascending.
RECURSIVE Ascending(_)
Ascending(S) ==
    IF S = {} THEN <<>>
    ELSE LET lo == CHOOSE x \in S : \A y \in S : x <= y
         IN  <<lo>> \o Ascending(S \ {lo})

\* A node as MERGE creates it: label Paper, the three properties of the row.
\* A node carries a set of labels.
NewPaper(row) ==
    [extId |-> row.extId, subject |-> row.subject, features |-> row.features,
     labels |-> {"Paper"}, predictedClass |-> <<>>]

\* MERGE (p:Paper {extId: .., subject: .., features: ..}): the nodes that
\* carry the label and the three property values.
PaperMatches(ns, row) ==
    {i \in DOMAIN ns : /\ "Paper" \in ns[i].labels
                       /\ ns[i].extId = row.extId
                       /\ ns[i].subject = row.subject
                       /\ ns[i].features = row.features}

\* The MERGE clause over the rows i.. of the source: a row binds p to every
\* node it matches, and creates one node when it matches none.  The result
\* is the nodes and the table of bindings of p, one entry per output row.
RECURSIVE MergeRows(_, _, _)
MergeRows(ns, src, i) ==
    IF i > Len(src) THEN [nodes |-> ns, table |-> <<>>]
    ELSE LET found == PaperMatches(ns, src[i])
             ns1 == IF found = {} THEN Append(ns, NewPaper(src[i])) ELSE ns
             bound == IF found = {} THEN <<Len(ns) + 1>> ELSE Ascending(found)
             rest == MergeRows(ns1, src, i + 1)
         IN  [nodes |-> rest.nodes, table |-> bound \o rest.table]

\* WITH p LIMIT k: the first k rows of the table.
Limit(table, k) == SubSeq(table, 1, Min(k, Len(table)))

\* The relabelling without its REMOVE clause: SET p:UnclassifiedPaper only.
RelabelKeepingPaper(ns, table) ==
    [i \in DOMAIN ns |->
        IF \E j \in DOMAIN table : table[j] = i
        THEN [ns[i] EXCEPT !.labels = @ \cup {"UnclassifiedPaper"}]
        ELSE ns[i]]

\* REMOVE p:Paper SET p:UnclassifiedPaper, for every row of the table.
Relabel(ns, table) ==
    [i \in DOMAIN ns |->
        IF \E j \in DOMAIN table : table[j] = i
        THEN [ns[i] EXCEPT !.labels = (@ \ {"Paper"}) \cup {"UnclassifiedPaper"}]
        ELSE ns[i]]

\* load_nodes with the LIMIT cutting the rows before the MERGE sees them:
\* only the first k rows are merged, and every merged node is relabelled.
LimitBeforeMerge(ns, src, k) ==
    LET merged == MergeRows(ns, Limit(src, k), 1)
    IN  Relabel(merged.nodes, merged.table)

\* The load_nodes statement: every row is merged, then the nodes of the
\* first k output rows are relabelled.
LoadNodesResult(ns, src, k) ==
    LET merged == MergeRows(ns, src, 1)
    IN  Relabel(merged.nodes, Limit(merged.table, k))

\* The match with OR in the place of AND.
MatchEitherEndpoint(ns, row) ==
    {e \in (DOMAIN ns) \X (DOMAIN ns) :
        ns[e[1]].extId = row[1] \/ ns[e[2]].extId = row[2]}

\* MATCH (n), (m) WHERE n.extId = row[0] AND m.extId = row[1]
MatchEndpoints(ns, row) ==
    {e \in (DOMAIN ns) \X (DOMAIN ns) :
        ns[e[1]].extId = row[1] /\ ns[e[2]].extId = row[2]}

\* One row with the whole pattern merged, MERGE (n {extId: ..})-[:CITES]->
\* (m {extId: ..}): a row that matches nothing creates its two end nodes.
CitesRowCreating(db, row) ==
    IF MatchEndpoints(db.nodes, row) # {}
    THEN [nodes |-> db.nodes, rels |-> db.rels \cup MatchEndpoints(db.nodes, row)]
    ELSE LET n == Len(db.nodes)
             end(x) == [extId |-> x, subject |-> 0, features |-> <<>>,
                        labels |-> {}, predictedClass |-> <<>>]
         IN  [nodes |-> db.nodes \o <<end(row[1]), end(row[2])>>,
              rels |-> db.rels \cup {<<n + 1, n + 2>>}]

\* One row of load_relationships: MERGE (n)-[:CITES]->(m) for every match.
CitesRow(db, row) ==
    [nodes |-> db.nodes, rels |-> db.rels \cup MatchEndpoints(db.nodes, row)]

\* The load_relationships statement over the rows i.. of the source.
RECURSIVE LoadRelationshipsResult(_, _, _)
LoadRelationshipsResult(db, src, i) ==
    IF i > Len(src) THEN db
    ELSE LoadRelationshipsResult(CitesRow(db, src[i]), src, i + 1)

\* ------------------------------------------------- the service: projection
\* The labels the projection names.
ProjectedLabels == {"Paper", "UnclassifiedPaper"}

\* {"Paper": features, subject; "UnclassifiedPaper": features}
ProjectedNode(n) ==
    [labels |-> n.labels \cap ProjectedLabels,
     props |-> IF "Paper" \in n.labels
               THEN [features |-> n.features, subject |-> n.subject]
               ELSE [features |-> n.features]]

\* {"CITES": UNDIRECTED, SINGLE}: one edge per unordered pair of end nodes.
ProjectedEdges(rs) == {{e[1], e[2]} : e \in rs}

\* The projection as a Cypher projection over the relationships would make
\* it: a node without a relationship is not in the graph.
ProjectedGraphOfEdges(ns, rs) ==
    [schema |-> [Paper |-> {"features", "subject"},
                 UnclassifiedPaper |-> {"features"}],
     nodes |-> [i \in {j \in DOMAIN ns : \E e \in rs : j \in {e[1], e[2]}} |->
                   ProjectedNode(ns[i])],
     rels |-> ProjectedEdges(rs)]

\* The graph of gds.graph.project: every node of the two labels with the
\* properties the projection names for its label, and the CITES edges.
ProjectedGraph(ns, rs) ==
    [schema |-> [Paper |-> {"features", "subject"},
                 UnclassifiedPaper |-> {"features"}],
     nodes |-> [i \in {j \in DOMAIN ns : ns[j].labels \cap ProjectedLabels # {}} |->
                   ProjectedNode(ns[i])],
     rels |-> ProjectedEdges(rs)]

\* ------------------------------------------------------------ the notebook
\* A statement that returned: the run is at the next statement, and the
\* call is in the log.
Returned(call, next) ==
    /\ pc' = next
    /\ status' = status
    /\ log' = Append(log, call)

\* A failure handler that releases the handles before it ends the run.
RaisedAndReleased(call) ==
    /\ pc' = pc
    /\ status' = "aborted"
    /\ log' = Append(log, call)
    /\ graphs' = <<>> /\ pipelines' = <<>> /\ models' = <<>>
    /\ UNCHANGED <<nodes, rels>>

\* A statement that raised: nothing catches the exception, the run ends
\* where it is, and the service is as the failed call left it (unchanged).
Raised(call) ==
    /\ pc' = pc
    /\ status' = "aborted"
    /\ log' = Append(log, call)
    /\ UNCHANGED service

At(step) == status = "running" /\ pc = step

\* The notebook before its first statement, on a service that holds
\* nothing, for sources of any rows.
InitLoad ==
    /\ pc = "connect"
    /\ status = "running"
    /\ run = 1
    /\ log = <<>>
    /\ nodeSrc \in SeqsUpTo(NodeRow, MaxNodeRows)
    /\ edgeSrc \in SeqsUpTo(EdgeRow, MaxEdgeRows)
    /\ holdout \in 0..MaxHoldout
    /\ nodes = <<>>
    /\ rels = {}
    /\ graphs = <<>>
    /\ pipelines = <<>>
    /\ models = <<>>
    /\ predicted = <<>>
    /\ splitArgs = <<>>
    /\ loadedOn = [nodes |-> <<>>, rels |-> {}]
    /\ trainArgs = [estimate |-> <<>>, train |-> <<>>]

\* The same, for a node source that lists every paper once, as the Cora
\* file does (the edge source is any rows).
Init ==
    /\ InitLoad
    /\ \A i, j \in DOMAIN nodeSrc :
          nodeSrc[i].extId = nodeSrc[j].extId => i = j

\* A notebook whose load cell is not run: the projection follows the
\* connection.
ConnectSkippingLoad ==
    /\ At("connect")
    /\ Returned("connect", "project")
    /\ UNCHANGED <<run, inputs, service, predicted, splitArgs, loadedOn, trainArgs>>

\* gds = GraphDataScience(NEO4J_URI, auth=NEO4J_AUTH, database=NEO4J_DB)
Connect ==
    /\ At("connect")
    /\ Returned("connect", "load_nodes")
    /\ UNCHANGED <<run, inputs, service, predicted, splitArgs, loadedOn, trainArgs>>

\* gds.run_cypher(load_nodes)
LoadNodes ==
    /\ At("load_nodes")
    /\ nodes' = LoadNodesResult(nodes, nodeSrc, holdout)
    /\ loadedOn' = [nodes |-> nodes, rels |-> rels]
    /\ Returned("load_nodes", "load_relationships")
    /\ UNCHANGED <<run, inputs, rels, graphs, pipelines, models, predicted,
                   splitArgs, trainArgs>>

\* gds.run_cypher(load_relationships)
LoadRelationships ==
    /\ At("load_relationships")
    /\ LET db == LoadRelationshipsResult([nodes |-> nodes, rels |-> rels],
                                         edgeSrc, 1)
       IN  nodes' = db.nodes /\ rels' = db.rels
    /\ Returned("load_relationships", "project")
    /\ UNCHANGED <<run, inputs, graphs, pipelines, models, predicted,
                   splitArgs, loadedOn, trainArgs>>

\* G, _ = gds.graph.project("cora-graph", ...): the name must be free.
Project ==
    /\ At("project")
    /\ \/ /\ GraphName \notin DOMAIN graphs
          /\ graphs' = (GraphName :> ProjectedGraph(nodes, rels)) @@ graphs
          /\ Returned("project", "create_pipeline")
          /\ UNCHANGED <<nodes, rels, pipelines, models>>
       \/ /\ GraphName \in DOMAIN graphs
          /\ Raised("project")
    /\ UNCHANGED <<run, inputs, predicted, splitArgs, loadedOn, trainArgs>>

\* A pipeline as the service creates it (the service's defaults).
NewPipeline ==
    [featureProperties |-> {},
     splitConfig |-> [testFraction |-> 30, validationFolds |-> 3],
     candidates |-> 0,
     maxTrials |-> 10]

\* node_pipeline, _ = gds.beta.pipeline.nodeClassification.create("cora-pipeline")
CreatePipeline ==
    /\ At("create_pipeline")
    /\ \/ /\ PipelineName \notin DOMAIN pipelines
          /\ pipelines' = (PipelineName :> NewPipeline) @@ pipelines
          /\ Returned("create_pipeline", "list_pipelines")
          /\ UNCHANGED <<nodes, rels, graphs, models>>
       \/ /\ PipelineName \in DOMAIN pipelines
          /\ Raised("create_pipeline")
    /\ UNCHANGED <<run, inputs, predicted, splitArgs, loadedOn, trainArgs>>

\* gds.beta.pipeline.list(); gds.beta.pipeline.list(node_pipeline)
ListPipelines ==
    /\ At("list_pipelines")
    /\ Returned("list_pipelines", "select_features")
    /\ UNCHANGED <<run, inputs, service, predicted, splitArgs, loadedOn, trainArgs>>

\* node_pipeline.selectFeatures([...]): the call names the pipeline and the
\* properties only; no graph is given to it.
SelectFeatures ==
    /\ At("select_features")
    /\ \E props \in FeatureChoices :
          pipelines' = [pipelines EXCEPT ![PipelineName].featureProperties =
                                             @ \cup props]
    /\ Returned("select_features", "configure_split")
    /\ UNCHANGED <<run, inputs, nodes, rels, graphs, models, predicted,
                   splitArgs, loadedOn, trainArgs>>

\* What the service accepts as a split: fraction in (0,1), folds >= 1.
ValidSplit(tf, vf) == 0 < tf /\ tf < 100 /\ vf >= 1

\* node_pipeline.configureSplit(testFraction=.., validationFolds=..): the
\* notebook passes the arguments to the service as they are.
ConfigureSplit ==
    /\ At("configure_split")
    /\ \E tf \in TestFractions, vf \in FoldCounts :
          /\ splitArgs' = <<tf, vf>>
          /\ \/ /\ ValidSplit(tf, vf)
                /\ pipelines' = [pipelines EXCEPT ![PipelineName].splitConfig =
                                    [testFraction |-> tf, validationFolds |-> vf]]
                /\ Returned("configure_split", "add_logistic_regression")
                /\ UNCHANGED <<nodes, rels, graphs, models>>
             \/ /\ ~ValidSplit(tf, vf)
                /\ Raised("configure_split")
    /\ UNCHANGED <<run, inputs, predicted, loadedOn, trainArgs>>

\* node_pipeline.addLogisticRegression(maxEpochs=200, penalty=(0.0, 0.5))
AddLogisticRegression ==
    /\ At("add_logistic_regression")
    /\ pipelines' = [pipelines EXCEPT ![PipelineName].candidates = @ + 1]
    /\ Returned("add_logistic_regression", "configure_auto_tuning")
    /\ UNCHANGED <<run, inputs, nodes, rels, graphs, models, predicted,
                   splitArgs, loadedOn, trainArgs>>

\* node_pipeline.configureAutoTuning(maxTrials=5)
ConfigureAutoTuning ==
    /\ At("configure_auto_tuning")
    /\ pipelines' = [pipelines EXCEPT ![PipelineName].maxTrials = 5]
    /\ Returned("configure_auto_tuning", "train_estimate")
    /\ UNCHANGED <<run, inputs, nodes, rels, graphs, models, predicted,
                   splitArgs, loadedOn, trainArgs>>

\* The nodes of a projected graph that carry one of the labels.
NodesOf(g, labels) ==
    {i \in DOMAIN g.nodes : g.nodes[i].labels \cap labels # {}}

\* The graph has every feature property on each of the target labels.
FeaturesPresent(g, labels, props) ==
    \A l \in labels : props \subseteq g.schema[l]

\* The arguments of node_pipeline.train_estimate.
EstimateArguments ==
    [graph |-> GraphName, targetNodeLabels |-> {"Paper"},
     modelName |-> ModelName, targetProperty |-> "subject",
     metrics |-> <<"F1_WEIGHTED">>, randomSeed |-> 42, concurrency |-> 4]

\* The arguments of node_pipeline.train.
TrainArguments ==
    [graph |-> GraphName, targetNodeLabels |-> {"Paper"},
     modelName |-> ModelName, targetProperty |-> "subject",
     metrics |-> <<"F1_WEIGHTED">>, randomSeed |-> 42, concurrency |-> 4]

\* node_pipeline.train_estimate(G, targetNodeLabels=["Paper"], ...): the first
\* call that gives the pipeline a graph.  Whether the estimate already
\* rejects a feature property the graph lacks is left open.
TrainEstimate ==
    /\ At("train_estimate")
    /\ \/ Returned("train_estimate", "train") /\ UNCHANGED service
       \/ /\ ~FeaturesPresent(graphs[GraphName], {"Paper"},
                              pipelines[PipelineName].featureProperties)
          /\ Raised("train_estimate")
    /\ trainArgs' = [trainArgs EXCEPT !.estimate = <<EstimateArguments>>]
    /\ UNCHANGED <<run, inputs, predicted, splitArgs, loadedOn>>

\* The classes of the training nodes.
TrainingClasses(g) == {g.nodes[i].props.subject : i \in NodesOf(g, {"Paper"})}

\* What the service needs to train: a free model name, the feature
\* properties on the training nodes, a candidate, and training nodes.
Trainable(g, p) ==
    /\ ModelName \notin DOMAIN models
    /\ FeaturesPresent(g, {"Paper"}, p.featureProperties)
    /\ p.featureProperties # {}
    /\ p.candidates >= 1
    /\ NodesOf(g, {"Paper"}) # {}

\* model, stats = node_pipeline.train(G, targetNodeLabels=["Paper"],
\*     modelName="cora-pipeline-model", targetProperty="subject", ...)
\* The trained model is some map from feature vectors to training classes.
Train ==
    /\ At("train")
    /\ LET g == graphs[GraphName]
           p == pipelines[PipelineName]
       IN  \/ /\ Trainable(g, p)
              /\ \E clf \in [FeatureVectors -> TrainingClasses(g)] :
                    models' = (ModelName :>
                                 [featureProperties |-> p.featureProperties,
                                  trainedOn |->
                                     NodesOf(g, TrainArguments.targetNodeLabels),
                                  classifier |-> clf]) @@ models
              /\ Returned("train", "predict_mutate")
              /\ UNCHANGED <<nodes, rels, graphs, pipelines>>
           \/ /\ ~Trainable(g, p)
              /\ Raised("train")
    /\ trainArgs' = [trainArgs EXCEPT !.train = <<TrainArguments>>]
    /\ UNCHANGED <<run, inputs, predicted, splitArgs, loadedOn>>

\* The graph after predict_mutate: every node of the target labels gets the
\* two properties.
Mutated(g, m, labels) ==
    [schema |-> [l \in DOMAIN g.schema |->
                    IF l \in labels
                    THEN g.schema[l] \cup {"predictedClass", "predictedProbabilities"}
                    ELSE g.schema[l]],
     nodes |-> [i \in DOMAIN g.nodes |->
                   IF i \in NodesOf(g, labels)
                   THEN [g.nodes[i] EXCEPT !.props =
                            ("predictedClass" :> m.classifier[@.features])
                            @@ ("predictedProbabilities" :> <<>>) @@ @]
                   ELSE g.nodes[i]],
     rels |-> g.rels]

\* model.predict_mutate(G, mutateProperty="predictedClass", ...,
\*     targetNodeLabels=["UnclassifiedPaper"])
PredictMutate ==
    /\ At("predict_mutate")
    /\ graphs' = [graphs EXCEPT ![GraphName] =
                     Mutated(@, models[ModelName], {"UnclassifiedPaper"})]
    /\ Returned("predict_mutate", "stream")
    /\ UNCHANGED <<run, inputs, nodes, rels, pipelines, models, predicted,
                   splitArgs, loadedOn, trainArgs>>

\* gds.graph.streamNodeProperty(G, prop, labels): one row per node of the
\* labels that has the property, keyed by node id.
StreamNodeProperty(g, prop, labels) ==
    [i \in {j \in NodesOf(g, labels) : prop \in DOMAIN g.nodes[j].props} |->
        g.nodes[i].props[prop]]

\* predicted = gds.graph.streamNodeProperty(G, "predictedClass", ["UnclassifiedPaper"])
Stream ==
    /\ At("stream")
    /\ predicted' = StreamNodeProperty(graphs[GraphName], "predictedClass",
                                       {"UnclassifiedPaper"})
    /\ Returned("stream", "as_nodes")
    /\ UNCHANGED <<run, inputs, service, splitArgs, loadedOn, trainArgs>>

\* nodes = gds.util.asNodes(predicted.nodeId.to_list()), and the local merge
AsNodes ==
    /\ At("as_nodes")
    /\ Returned("as_nodes", "write")
    /\ UNCHANGED <<run, inputs, service, predicted, splitArgs, loadedOn, trainArgs>>

\* The write with the predicted class written to the subject property too.
WrittenOverSubject(ns, g, labels) ==
    [i \in DOMAIN ns |->
        IF i \in NodesOf(g, labels) /\ "predictedClass" \in DOMAIN g.nodes[i].props
        THEN [ns[i] EXCEPT !.predictedClass = <<g.nodes[i].props.predictedClass>>,
                           !.subject = g.nodes[i].props.predictedClass]
        ELSE ns[i]]

\* The database after the named graph properties of the labels are written.
Written(ns, g, labels) ==
    [i \in DOMAIN ns |->
        IF i \in NodesOf(g, labels) /\ "predictedClass" \in DOMAIN g.nodes[i].props
        THEN [ns[i] EXCEPT !.predictedClass = <<g.nodes[i].props.predictedClass>>]
        ELSE ns[i]]

\* gds.graph.nodeProperties.write(G, ["predictedClass"], ["UnclassifiedPaper"])
Write ==
    /\ At("write")
    /\ nodes' = Written(nodes, graphs[GraphName], {"UnclassifiedPaper"})
    /\ Returned("write", "drop_model")
    /\ UNCHANGED <<run, inputs, rels, graphs, pipelines, models, predicted,
                   splitArgs, loadedOn, trainArgs>>

\* A catalog without a name.
Without(catalog, name) == [n \in DOMAIN catalog \ {name} |-> catalog[n]]

\* model.drop(): first statement of the cleanup cell.  The model is the one
\* this run trained, so it is in the catalog.
DropModel ==
    /\ At("drop_model")
    /\ ModelName \in DOMAIN models
    /\ models' = Without(models, ModelName)
    /\ Returned("drop_model", "drop_model_fastrp")
    /\ UNCHANGED <<run, inputs, nodes, rels, graphs, pipelines, predicted,
                   splitArgs, loadedOn, trainArgs>>

\* model_fastrp.drop(): the notebook never assigns model_fastrp, so the
\* statement raises NameError before any call is made.  The statements after
\* it (node_pipeline.drop(), node_pipeline_fastrp.drop(), G.drop(), the
\* DETACH DELETE and gds.close()) are never reached.
DropModelFastrp ==
    /\ At("drop_model_fastrp")
    /\ pc' = pc
    /\ status' = "aborted"
    /\ UNCHANGED <<run, log, inputs, service, predicted, splitArgs, loadedOn, trainArgs>>

\* The remote calls of the notebook in the order of its statements.  The
\* calls after model.drop() are written in the notebook but not reached.
CallOrder ==
    <<"connect", "load_nodes", "load_relationships", "project",
      "create_pipeline", "list_pipelines", "select_features", "configure_split",
      "add_logistic_regression", "configure_auto_tuning", "train_estimate",
      "train", "predict_mutate", "stream", "as_nodes", "write", "drop_model",
      "drop_pipeline", "drop_graph", "delete_rows", "close">>

\* The statements that call the service.
RemoteSteps ==
    {"connect", "load_nodes", "load_relationships", "project",
     "create_pipeline", "list_pipelines", "select_features", "configure_split",
     "add_logistic_regression", "configure_auto_tuning", "train_estimate",
     "train", "predict_mutate", "stream", "as_nodes", "write", "drop_model"}

\* Any remote call may fail (connection lost, out of memory, ...); the
\* failure is surfaced as an exception.
RemoteFailure ==
    /\ status = "running"
    /\ pc \in RemoteSteps
    /\ Raised(pc)
    /\ trainArgs' =
          IF pc = "train_estimate"
          THEN [trainArgs EXCEPT !.estimate = <<EstimateArguments>>]
          ELSE IF pc = "train"
               THEN [trainArgs EXCEPT !.train = <<TrainArguments>>]
               ELSE trainArgs
    /\ UNCHANGED <<run, inputs, predicted, splitArgs, loadedOn>>

\* The notebook is run again, from the top, against the same service.
Restart ==
    /\ status = "aborted"
    /\ run < MaxRuns
    /\ run' = run + 1
    /\ pc' = "connect"
    /\ status' = "running"
    /\ log' = <<>>
    /\ predicted' = <<>>
    /\ splitArgs' = <<>>
    /\ loadedOn' = [nodes |-> <<>>, rels |-> {}]
    /\ trainArgs' = [estimate |-> <<>>, train |-> <<>>]
    /\ UNCHANGED <<inputs, service>>

Next ==
    \/ Connect
    \/ LoadNodes
    \/ LoadRelationships
    \/ Project
    \/ CreatePipeline
    \/ ListPipelines
    \/ SelectFeatures
    \/ ConfigureSplit
    \/ AddLogisticRegression
    \/ ConfigureAutoTuning
    \/ TrainEstimate
    \/ Train
    \/ PredictMutate
    \/ Stream
    \/ AsNodes
    \/ Write
    \/ DropModel
    \/ DropModelFastrp
    \/ RemoteFailure
    \/ Restart

Spec == Init /\ [][Next]_vars

\* The load cell and the projection alone, on sources of any rows.
NextLoad ==
    \/ Connect
    \/ LoadNodes
    \/ LoadRelationships
    \/ Project
    \/ RemoteFailure
    \/ Restart

SpecLoad == InitLoad /\ [][NextLoad]_vars

\* ------------------------------------------------------------------ claims
Range(f) == {f[x] : x \in DOMAIN f}
Labelled(ns, label) == {i \in DOMAIN ns : label \in ns[i].labels}
DistinctRows(src) == \A i, j \in DOMAIN src : i # j => src[i] # src[j]

\* The cleanup cell has been run: it ended at its second statement.
CleanupRan == pc = "drop_model_fastrp" /\ status = "aborted"

\* C1 (as claimed): once the cleanup cell has been run, neither the model
\* 'cora-pipeline-model' nor the pipeline 'cora-pipeline' nor the graph
\* 'cora-graph' exists in the service.
C1_CleanupLeavesNoHandle ==
    CleanupRan =>
        /\ ModelName \notin DOMAIN models
        /\ PipelineName \notin DOMAIN pipelines
        /\ GraphName \notin DOMAIN graphs

\* The load_nodes statement of this run has returned, and it began on a
\* database without nodes.
NodesLoadedOnEmpty == pc = "load_relationships" /\ loadedOn.nodes = <<>>

\* N nodes, of which K unlabeled and N - K labeled.
LoadCounts(n, k) ==
    /\ Len(nodes) = n
    /\ Cardinality(Labelled(nodes, "UnclassifiedPaper")) = k
    /\ Cardinality(Labelled(nodes, "Paper")) = n - k

\* C2 (as claimed): for every node source of N rows and every K <= N, the
\* node load leaves exactly N nodes, K unlabeled and N - K labeled, repeated
\* rows and repeated identifiers included.
C2_LoadCountsAnySource ==
    (NodesLoadedOnEmpty /\ holdout <= Len(nodeSrc)) =>
        LoadCounts(Len(nodeSrc), holdout)

\* C2 (amended): for every node source of N pairwise different rows (rows
\* may share the identifier) loaded into a database without nodes, and every
\* K <= N, the node load leaves exactly N nodes, K unlabeled and N - K
\* labeled.
C2_LoadCountsDistinctRows ==
    (NodesLoadedOnEmpty /\ holdout <= Len(nodeSrc) /\ DistinctRows(nodeSrc)) =>
        LoadCounts(Len(nodeSrc), holdout)

\* Two different rows with the same identifier, one of them held out.
C2_Witness ==
    /\ NodesLoadedOnEmpty
    /\ Len(nodeSrc) = 2 /\ holdout = 1
    /\ nodeSrc[1] # nodeSrc[2] /\ nodeSrc[1].extId = nodeSrc[2].extId
    /\ LoadCounts(2, 1)
    /\ nodes[1].labels = {"UnclassifiedPaper"}

\* The projection of this run has returned, and the run's load began on a
\* database without relationships.
ProjectedAfterLoad == pc = "create_pipeline" /\ loadedOn.rels = {}

\* No two nodes of the database share the external identifier.
UniqueExtIds ==
    \A i, j \in DOMAIN nodes : nodes[i].extId = nodes[j].extId => i = j

\* C3 (as claimed): for every edge source of M rows, the projected graph has
\* at most M distinct undirected edges, also when several nodes share an
\* external identifier.
C3_EdgesAtMostRowsAnyNodes ==
    ProjectedAfterLoad =>
        Cardinality(graphs[GraphName].rels) <= Len(edgeSrc)

\* C3 (amended): for every edge source of M rows loaded into a database
\* without relationships in which no two nodes share an external identifier,
\* the database has at most M relationships and the projected graph at most
\* M distinct undirected edges, fewer when both (a,b) and (b,a) occur.
C3_EdgesAtMostRowsUniqueIds ==
    (ProjectedAfterLoad /\ UniqueExtIds) =>
        /\ Cardinality(rels) <= Len(edgeSrc)
        /\ Cardinality(graphs[GraphName].rels) <= Len(edgeSrc)
        /\ (\E i, j \in DOMAIN edgeSrc :
               /\ i # j
               /\ edgeSrc[i] = <<edgeSrc[j][2], edgeSrc[j][1]>>)
           => Cardinality(graphs[GraphName].rels) < Len(edgeSrc)

\* Rows (a,b) and (b,a) between two loaded nodes give one undirected edge.
C3_Witness ==
    /\ ProjectedAfterLoad /\ UniqueExtIds
    /\ Len(nodes) = 2
    /\ edgeSrc = <<<<1, 2>>, <<2, 1>>>>
    /\ Cardinality(rels) = 2
    /\ Cardinality(graphs[GraphName].rels) = 1

\* The stream statement of this run has returned.
Streamed == pc \in {"as_nodes", "write", "drop_model", "drop_model_fastrp"}

\* C4: after training and predict-mutate on the held-out category, the
\* stream of the predicted class has exactly one row for each node carrying
\* the unlabeled category and none for a labeled node.
C4_OneRowPerHeldOutNode ==
    Streamed =>
        /\ DOMAIN predicted = Labelled(nodes, "UnclassifiedPaper")
        /\ DOMAIN predicted \cap Labelled(nodes, "Paper") = {}

\* A stream of one row, for the held-out node of two, which has no edge.
C4_Witness ==
    /\ pc = "as_nodes"
    /\ "train" \in Range(log) /\ "predict_mutate" \in Range(log)
    /\ Len(nodes) = 2 /\ rels = {<<2, 2>>}
    /\ DOMAIN predicted = {1}
    /\ nodes[1].labels = {"UnclassifiedPaper"} /\ nodes[2].labels = {"Paper"}

\* C5: the run is fail-fast.  A step that fails leaves the service exactly
\* as it was, and once the run has failed it issues no further call and
\* changes nothing in the service.
C5_FailFast ==
    [][(status' = "aborted" /\ run' = run) =>
          /\ service' = service
          /\ status = "aborted" => (log' = log /\ pc' = pc)]_vars

\* The run failed at train: graph and pipeline are still in the catalogs.
C5_Witness ==
    /\ status = "aborted" /\ pc = "train"
    /\ GraphName \in DOMAIN graphs
    /\ PipelineName \in DOMAIN pipelines
    /\ nodes # <<>>
    /\ log[Len(log)] = "train"

\* The step taken issues the call.
Issues(call) == log' = Append(log, call)

\* C6 (as claimed): a create-by-name call (project 'cora-graph', create
\* 'cora-pipeline', train 'cora-pipeline-model') is issued only when no
\* handle of that name exists in the service, in every sequence of runs.
C6_CreateOnlyWhenNameFree ==
    [][/\ Issues("project") => GraphName \notin DOMAIN graphs
       /\ Issues("create_pipeline") => PipelineName \notin DOMAIN pipelines
       /\ Issues("train") => ModelName \notin DOMAIN models]_vars

\* C7 (a drop of an already dropped handle is rejected and changes nothing):
\* the notebook drops a handle at most once in a run, and only a handle the
\* run itself created, so no reachable state has such a drop; what it would
\* return is decided by the client library and the service.

\* The run called configureSplit with a split the contract excludes.
InvalidSplitGiven == splitArgs # <<>> /\ ~ValidSplit(splitArgs[1], splitArgs[2])

\* C8 (as claimed): a split whose test fraction is not in (0,1) or whose
\* fold count is below 1 is rejected locally: no remote call is issued for
\* it and the pipeline's split configuration is unchanged.
C8_InvalidSplitNeverSent ==
    InvalidSplitGiven =>
        /\ "configure_split" \notin Range(log)
        /\ pipelines[PipelineName].splitConfig = NewPipeline.splitConfig

\* The run selected a feature property the projected graph does not have
\* on the training label.
AbsentFeatureSelected ==
    /\ "select_features" \in Range(log)
    /\ pc # "select_features"
    /\ ~FeaturesPresent(graphs[GraphName], {"Paper"},
                        pipelines[PipelineName].featureProperties)

\* C9 (as claimed): selecting a feature property absent from the projected
\* graph fails, before any training call (estimate or train) is issued, and
\* no model is created in that run.
C9_AbsentFeatureFailsBeforeTraining ==
    AbsentFeatureSelected =>
        /\ "train_estimate" \notin Range(log)
        /\ "train" \notin Range(log)
        /\ ModelName \notin DOMAIN models

\* The row's two identifiers both resolve to nodes.
Resolves(ns, row) ==
    /\ \E i \in DOMAIN ns : ns[i].extId = row[1]
    /\ \E i \in DOMAIN ns : ns[i].extId = row[2]

\* C10: the edge load completes whatever the rows resolve to; it creates and
\* changes no node, every relationship it adds joins the nodes a row names,
\* every row that resolves has its relationships (the rows after an
\* unresolved row too), and a row that does not resolve adds none.
C10_UnresolvedRowSkipped ==
    [][(At("load_relationships") /\ pc' = "project") =>
          /\ nodes' = nodes
          /\ \A e \in rels' \ rels :
                \E j \in DOMAIN edgeSrc :
                   /\ nodes[e[1]].extId = edgeSrc[j][1]
                   /\ nodes[e[2]].extId = edgeSrc[j][2]
          /\ \A j \in DOMAIN edgeSrc :
                \A n, m \in DOMAIN nodes :
                   (nodes[n].extId = edgeSrc[j][1] /\ nodes[m].extId = edgeSrc[j][2])
                      => <<n, m>> \in rels'
          /\ (\A j \in DOMAIN edgeSrc : ~Resolves(nodes, edgeSrc[j]))
                => rels' = rels]_vars

\* The edge load has returned on a source whose first row does not resolve
\* and whose second row does: the second row's relationship is there.
C10_Witness ==
    /\ pc = "project" /\ status = "running"
    /\ "load_relationships" \in Range(log)
    /\ Len(edgeSrc) = 2
    /\ ~Resolves(nodes, edgeSrc[1])
    /\ Resolves(nodes, edgeSrc[2])
    /\ Len(nodes) = 1
    /\ rels = {<<1, 1>>}

\* The step taken is the write statement returning.
WriteReturns == At("write") /\ pc' = "drop_model"

\* C11: predict-mutate changes the projected graph only, not the database;
\* no step but the write gives a database node a predicted class, and none
\* carries one when the write is issued; the write gives every held-out
\* node the predicted class it has in the projected graph, gives none to a
\* labeled node, and changes no identifier, label code, feature vector or
\* label of any node.
C11_PredictInMemoryWriteCopies ==
    [][/\ (At("predict_mutate") /\ pc' = "stream") =>
             /\ nodes' = nodes /\ rels' = rels
             /\ graphs'[GraphName] # graphs[GraphName]
                   \/ Labelled(nodes, "UnclassifiedPaper") = {}
       /\ ~WriteReturns =>
             \A i \in DOMAIN nodes' :
                nodes'[i].predictedClass =
                   IF i \in DOMAIN nodes THEN nodes[i].predictedClass ELSE <<>>
       /\ At("write") => \A i \in DOMAIN nodes : nodes[i].predictedClass = <<>>
       /\ WriteReturns =>
             /\ DOMAIN nodes' = DOMAIN nodes
             /\ rels' = rels
             /\ \A i \in DOMAIN nodes :
                   /\ nodes'[i].extId = nodes[i].extId
                   /\ nodes'[i].subject = nodes[i].subject
                   /\ nodes'[i].features = nodes[i].features
                   /\ nodes'[i].labels = nodes[i].labels
             /\ \A i \in Labelled(nodes, "UnclassifiedPaper") :
                   nodes'[i].predictedClass =
                      <<graphs[GraphName].nodes[i].props.predictedClass>>
             /\ \A i \in Labelled(nodes, "Paper") :
                   nodes'[i].predictedClass = <<>>]_vars

\* The write has returned: the held-out node of two carries in the database
\* the class it has in the graph, the labeled node carries none.
C11_Witness ==
    /\ pc = "drop_model" /\ status = "running"
    /\ Len(nodes) = 2
    /\ nodes[1].labels = {"UnclassifiedPaper"} /\ nodes[2].labels = {"Paper"}
    /\ nodes[1].predictedClass = <<graphs[GraphName].nodes[1].props.predictedClass>>
    /\ nodes[1].predictedClass = <<nodes[2].subject>>
    /\ nodes[1].subject # nodes[2].subject
    /\ nodes[2].predictedClass = <<>>

\* In the sequence, every b has an a before it.
PrecedesIn(seq, a, b) ==
    \A j \in DOMAIN seq : seq[j] = b => \E i \in 1..(j - 1) : seq[i] = a

\* Call a comes before call b, in the calls the run has issued and in the
\* calls the notebook writes.
Ordered(a, b) == PrecedesIn(log, a, b) /\ PrecedesIn(CallOrder, a, b)

\* Nothing comes after call a.
Last(seq, a) == \A j \in DOMAIN seq : seq[j] = a => j = Len(seq)

PredictedNodes(g) ==
    {i \in DOMAIN g.nodes : "predictedClass" \in DOMAIN g.nodes[i].props}

\* C13: every node is labeled or held out and none is both; the projected
\* graph has the label code (subject) on labeled nodes only; the model was
\* trained on labeled nodes only; predictions are on held-out nodes only; no
\* node is both trained on and predicted.
C13_HeldOutApartFromTraining ==
    /\ Labelled(nodes, "Paper") \cap Labelled(nodes, "UnclassifiedPaper") = {}
    /\ Labelled(nodes, "Paper") \cup Labelled(nodes, "UnclassifiedPaper")
          = DOMAIN nodes
    /\ GraphName \in DOMAIN graphs =>
          LET g == graphs[GraphName]
          IN  /\ "subject" \notin g.schema["UnclassifiedPaper"]
              /\ \A i \in DOMAIN g.nodes :
                    "subject" \in DOMAIN g.nodes[i].props
                       => i \notin NodesOf(g, {"UnclassifiedPaper"})
              /\ NodesOf(g, {"Paper"}) \cap NodesOf(g, {"UnclassifiedPaper"}) = {}
              /\ PredictedNodes(g) \subseteq Labelled(nodes, "UnclassifiedPaper")
              /\ PredictedNodes(g) \cap Labelled(nodes, "Paper") = {}
              /\ ModelName \in DOMAIN models =>
                    /\ models[ModelName].trainedOn \subseteq Labelled(nodes, "Paper")
                    /\ models[ModelName].trainedOn
                          \cap Labelled(nodes, "UnclassifiedPaper") = {}
                    /\ models[ModelName].trainedOn \cap PredictedNodes(g) = {}

\* After predict-mutate: the model was trained on the labeled node, the
\* prediction is on the held-out node, which has no subject in the graph.
C13_Witness ==
    /\ pc = "stream"
    /\ Len(nodes) = 2
    /\ models[ModelName].trainedOn = {2}
    /\ PredictedNodes(graphs[GraphName]) = {1}
    /\ DOMAIN graphs[GraphName].nodes[1].props
          = {"features", "predictedClass", "predictedProbabilities"}
    /\ nodes[1].subject # nodes[2].subject

====
